---- MODULE Spec2Model ----
(***************************************************************************)
(* Model of RoadSegmenter (src/src/road_splitter.py): split_roads and its  *)
(* helpers _project_to_utm, _create_output and _perform_split, run against *)
(* a workspace of named feature classes.                                   *)
(*                                                                         *)
(* Lengths are whole metres.  A polyline is the pair <<lo, hi>> of the     *)
(* arc-length positions it covers on its parent line, so an input road of  *)
(* length L is <<0, L>>.  Ratios are exact rationals <<num, den>>: the     *)
(* model follows the code's arithmetic without floating-point rounding.    *)
(* Every arcpy call that can raise is given a failing outcome.             *)
(***************************************************************************)
EXTENDS Integers, Sequences, FiniteSets, TLC

\* ---------------------------------------------------------------- bounds
MaxRoads == 2        \* rows in the input feature class
MaxLen == 5          \* longest road, metres
MaxT == 2            \* largest target length, metres
MaxSeg == MaxLen + 2 \* the while loop is followed for at most MaxSeg inserts per road

\* ------------------------------------------------------------- workspace
InputFc == "roads"
Names == {"roads", "roads_UTM", "segments"}
NoFC == [absent |-> TRUE]
NullGeom == <<>>
FieldCount == 4

\* mutant: a fixed scratch name that can be the destination's
ProjectedNameScratch(fc) == "segments"

\* f"{input_fc}_UTM"
ProjectedName(fc) == IF fc = "roads" THEN "roads_UTM" ELSE "other_UTM"

\* arcpy.Exists
Exists(f, name) == f[name] # NoFC

\* arcpy.Delete_management
Delete(f, name) == [f EXCEPT ![name] = NoFC]

\* a feature class that was in the workspace before the call
OldFC == [rows |-> <<[oid |-> 1, shape |-> NullGeom]>>, fields |-> 0, sr |-> "other"]

\* ------------------------------------------------------------- rationals
RatLE(a, b) == a[1] * b[2] <= b[1] * a[2]
RatMin(a, b) == IF RatLE(a, b) THEN a ELSE b
One == <<1, 1>>

\* geom.length
GeomLength(g) == g[2] - g[1]

\* geom.segmentAlongLine(start_ratio, end_ratio, False): the sub-path between
\* the two fractions of the line's arc length
segmentAlongLine(g, s, e) ==
    << g[1] + (s[1] * GeomLength(g)) \div s[2],
       g[1] + (e[1] * GeomLength(g)) \div e[2] >>

\* segment_m = segment_length_km * 1000
SegmentM(km) == (km[1] * 1000) \div km[2]

\* str(n) as its decimal digits
RECURSIVE Digits(_)
Digits(n) == IF n < 10 THEN <<n>> ELSE Append(Digits(n \div 10), n % 10)

\* f"{seg_num:02d}" as its digits
Pad2(n) == IF n < 10 THEN <<0, n>> ELSE Digits(n)

\* f"R{road_id}_S{seg_num:02d}"
Label(rid, sn) == <<"R", rid, "_S", Pad2(sn)>>

\* ---------------------------------------------- _perform_split, per row
\* line 138: the road fits in one segment
IsSingle(L, T) == L <= T

\* mutant: the loop gives up one metre short of the end
WhileCondShort(c, L) == c + 1 < L

\* line 149: the while condition
WhileCond(c, L) == c < L

\* mutant: every cut starts at the beginning of the road
StartRatioFromZero(c, L) == <<0, L>>

\* line 150
StartRatio(c, L) == <<c, L>>

\* mutant: the end ratio is not clamped to 1.0
EndRatioNoClamp(c, T, L) == <<c + T, L>>

\* line 151
EndRatio(c, T, L) == RatMin(<<c + T, L>>, One)

\* mutant: a null row takes a road_id
RoadIdAfterNullCounts(rid) == rid + 1

\* lines 135-136, 163: `continue` leaves road_id as it is
RoadIdAfterNull(rid) == rid

\* lines 126, 167: time.time() - start, a reading the model does not interpret
Elapsed == "elapsed"

\* mutant: the length is stored in metres
SingleRowInMetres(g, rid) ==
    [shape |-> g, SEGMENT_ID |-> 1, ROAD_ID |-> rid,
     LENGTH_KM |-> <<GeomLength(g), 1>>, LABEL |-> <<"R", rid, "_S", <<0, 1>>>>]

\* lines 140-142: the record of a road written whole
SingleRow(g, rid) ==
    [shape |-> g, SEGMENT_ID |-> 1, ROAD_ID |-> rid,
     LENGTH_KM |-> <<GeomLength(g), 1000>>, LABEL |-> <<"R", rid, "_S", <<0, 1>>>>]

\* lines 154-157: the record of one cut segment
SegmentRow(seg, sn, rid) ==
    [shape |-> seg, SEGMENT_ID |-> sn, ROAD_ID |-> rid,
     LENGTH_KM |-> <<GeomLength(seg), 1000>>, LABEL |-> Label(rid, sn)]

\* ------------------------------------------------------------ split_roads
\* mutant: the handler lets the exception through
ExceptHandlerReraises(e) == [raised |-> e]

\* lines 75-77: the handler of every exception raised inside the try block
ExceptHandler(e) == [success |-> FALSE, error |-> e]

\* lines 68-73
SuccessResult(out, res) ==
    [success |-> TRUE, output |-> out, segments |-> res.segments, time |-> res.time]

\* mutant: a failed transform is fatal, no fallback
ProjectRaisesNoFallback(delOk, trOk, cpOk, dfOk) == ~delOk \/ ~trOk

\* lines 83-91: _project_to_utm raises when the delete of an old intermediate
\* fails, or when the transform fails and the fallback (copy, then define) fails
ProjectRaises(delOk, trOk, cpOk, dfOk) == ~delOk \/ (~trOk /\ ~(cpOk /\ dfOk))

NoResult == [pending |-> TRUE]
NoResults == [segments |-> 0, time |-> "none"]
NoProj == [del |-> "skipped", tr |-> "skipped", cp |-> "skipped", df |-> "skipped"]

VARIABLES
    fs,                 \* the workspace: name -> feature class or NoFC
    output_name,        \* argument of split_roads
    segment_length_km,  \* argument of split_roads, a rational <<n, 1000>>
    pc,                 \* position in split_roads / _perform_split
    result,             \* what split_roads returned
    row_idx,            \* rows the search cursor has yielded
    road_id, seg_num, cumulative, total_segments, geom,  \* locals of _perform_split
    results,            \* what _perform_split returned
    fs0,                \* the workspace when split_roads was called
    proj,               \* outcome of each call made by _project_to_utm
    steps               \* the steps of split_roads entered so far

vars == <<fs, output_name, segment_length_km, pc, result, row_idx, road_id, seg_num,
          cumulative, total_segments, geom, results, fs0, proj, steps>>

locals == <<row_idx, road_id, seg_num, cumulative, total_segments, geom>>
args == <<output_name, segment_length_km, fs0>>

projected == ProjectedName(InputFc)
output_fc == output_name          \* os.path.join(arcpy.env.workspace, output_name)
segment_m == SegmentM(segment_length_km)

\* ------------------------------------------------------------------ Init
Shapes == {NullGeom} \cup {<<0, L>> : L \in 1..MaxLen}
ShapeSeqs == UNION {[1..n -> Shapes] : n \in 0..MaxRoads}
OidSchemes == {"dense", "reversed_gaps"}
OidOf(scheme, i, n) == IF scheme = "dense" THEN i ELSE 2 * (n - i) + 3
RoadRows(shapes, scheme) ==
    [i \in 1..Len(shapes) |-> [oid |-> OidOf(scheme, i, Len(shapes)), shape |-> shapes[i]]]
InputFCs ==
    {[rows |-> RoadRows(sh, sc), fields |-> 0, sr |-> "WGS84"] :
        sh \in ShapeSeqs, sc \in OidSchemes}

Init ==
    /\ \E inp \in {NoFC} \cup InputFCs, utm \in {NoFC, OldFC}, old \in {NoFC, OldFC} :
          fs = [n \in Names |-> CASE n = "roads" -> inp
                                  [] n = "roads_UTM" -> utm
                                  [] OTHER -> old]
    /\ fs0 = fs
    /\ output_name \in Names
    /\ segment_length_km \in {<<T, 1000>> : T \in 0..MaxT}
    /\ pc = "validate"
    /\ result = NoResult
    /\ row_idx = 0 /\ road_id = 0 /\ seg_num = 0 /\ cumulative = 0
    /\ total_segments = 0 /\ geom = NullGeom
    /\ results = NoResults
    /\ proj = NoProj
    /\ steps = <<>>

\* an exception reaches the except clause of split_roads, which returns
Raise(e) == /\ result' = ExceptHandler(e)
            /\ pc' = "done"

\* ------------------------------------------------------- lines 50-52
Validate ==
    /\ pc = "validate"
    /\ steps' = Append(steps, "validate")
    /\ \E raises \in BOOLEAN :
          IF raises THEN Raise("Exists")
          ELSE IF ~Exists(fs, InputFc)
               THEN /\ result' = [success |-> FALSE, error |-> "Input not found"]
                    /\ pc' = "done"
               ELSE /\ pc' = "project"
                    /\ result' = result
    /\ UNCHANGED <<fs, args, locals, results, proj>>

\* ------------------------------------------------------- lines 55, 79-93
ProjectToUtm ==
    /\ pc = "project"
    /\ steps' = Append(steps, "project")
    /\ \E delOk, trOk, cpOk, dfOk \in BOOLEAN :
          LET had == Exists(fs, projected)
              fsd == IF had THEN Delete(fs, projected) ELSE fs
              src == fs[InputFc]
          IN  \* outcomes of calls that are not made are fixed
              /\ (~had => delOk)
              /\ (~delOk => trOk /\ cpOk /\ dfOk)
              /\ (trOk => cpOk /\ dfOk)
              /\ (~cpOk => dfOk)
              /\ proj' = [del |-> IF ~had THEN "skipped" ELSE IF delOk THEN "ok" ELSE "fail",
                          tr  |-> IF ~delOk THEN "skipped" ELSE IF trOk THEN "ok" ELSE "fail",
                          cp  |-> IF ~delOk \/ trOk THEN "skipped"
                                  ELSE IF cpOk THEN "ok" ELSE "fail",
                          df  |-> IF ~delOk \/ trOk \/ ~cpOk THEN "skipped"
                                  ELSE IF dfOk THEN "ok" ELSE "fail"]
              /\ fs' = IF ~delOk THEN fs
                       ELSE IF trOk THEN [fsd EXCEPT ![projected] = [src EXCEPT !.sr = "UTM"]]
                       ELSE IF ~cpOk THEN fsd
                       ELSE IF dfOk
                            THEN [fsd EXCEPT ![projected] = [src EXCEPT !.sr = "UTM_declared"]]
                            ELSE [fsd EXCEPT ![projected] = src]
              /\ IF ProjectRaises(delOk, trOk, cpOk, dfOk)
                 THEN Raise(IF ~delOk THEN "Delete_management"
                            ELSE IF ~cpOk THEN "CopyFeatures_management"
                            ELSE "DefineProjection_management")
                 ELSE /\ pc' = "create"
                      /\ result' = result
    /\ UNCHANGED <<args, locals, results>>

\* ------------------------------------------------------- lines 58-59, 95-120
CreateOutput ==
    /\ pc = "create"
    /\ steps' = Append(steps, "create")
    /\ LET had == Exists(fs, output_fc)
           fsd == IF had THEN Delete(fs, output_fc) ELSE fs
           tpl == fsd[projected]
       IN \E o \in {"join", "delete", "create", "addfield", "ok"}, k \in 0..(FieldCount - 1) :
             /\ (o = "delete" => had)
             /\ (o \in {"addfield", "ok"} => tpl # NoFC)
             /\ (o # "addfield" => k = 0)
             /\ CASE o = "join" ->      \* arcpy.env.workspace is None
                        fs' = fs /\ Raise("os.path.join")
                  [] o = "delete" -> fs' = fs /\ Raise("Delete_management")
                  [] o = "create" -> fs' = fsd /\ Raise("CreateFeatureclass_management")
                  [] o = "addfield" ->
                        /\ fs' = [fsd EXCEPT ![output_fc] =
                                     [rows |-> <<>>, fields |-> k, sr |-> tpl.sr]]
                        /\ Raise("AddField_management")
                  [] o = "ok" ->
                        /\ fs' = [fsd EXCEPT ![output_fc] =
                                     [rows |-> <<>>, fields |-> FieldCount, sr |-> tpl.sr]]
                        /\ pc' = "split"
                        /\ result' = result
    /\ UNCHANGED <<args, locals, results, proj>>

\* ------------------------------------------------------- lines 62, 125-132
SplitOpen ==
    /\ pc = "split"
    /\ steps' = Append(steps, "split")
    /\ \E ok \in BOOLEAN :
          IF ok
          THEN /\ total_segments' = 0
               /\ road_id' = 1
               /\ row_idx' = 0
               /\ pc' = "for"
               /\ result' = result
          ELSE /\ Raise("cursor")
               /\ UNCHANGED <<total_segments, road_id, row_idx>>
    /\ UNCHANGED <<fs, args, seg_num, cumulative, geom, results, proj>>

InRows == fs[projected].rows
Insert(row) == fs' = [fs EXCEPT ![output_fc].rows = Append(@, row)]

\* lines 134-136: the cursor yields a row without geometry
SkipNullRow ==
    /\ pc = "for"
    /\ row_idx < Len(InRows)
    /\ InRows[row_idx + 1].shape = NullGeom
    /\ row_idx' = row_idx + 1
    /\ geom' = NullGeom
    /\ road_id' = RoadIdAfterNull(road_id)
    /\ UNCHANGED <<fs, args, pc, result, seg_num, cumulative, total_segments,
                   results, proj, steps>>

\* lines 134, 138-143, 163: a road no longer than the target
InsertSingle ==
    /\ pc = "for"
    /\ row_idx < Len(InRows)
    /\ LET g == InRows[row_idx + 1].shape
       IN /\ g # NullGeom
          /\ IsSingle(GeomLength(g), segment_m)
          /\ geom' = g
          /\ \E ok \in BOOLEAN :
                IF ok
                THEN /\ Insert(SingleRow(g, road_id))
                     /\ total_segments' = total_segments + 1
                     /\ road_id' = road_id + 1
                     /\ row_idx' = row_idx + 1
                     /\ UNCHANGED <<pc, result>>
                ELSE /\ Raise("insertRow")
                     /\ UNCHANGED <<fs, total_segments, road_id, row_idx>>
    /\ UNCHANGED <<args, seg_num, cumulative, results, proj, steps>>

\* lines 134, 138, 144-147: a road longer than the target
BeginMulti ==
    /\ pc = "for"
    /\ row_idx < Len(InRows)
    /\ LET g == InRows[row_idx + 1].shape
       IN /\ g # NullGeom
          /\ ~IsSingle(GeomLength(g), segment_m)
          /\ geom' = g
    /\ cumulative' = 0
    /\ seg_num' = 1
    /\ pc' = "while"
    /\ UNCHANGED <<fs, args, result, row_idx, road_id, total_segments, results, proj, steps>>

\* lines 149-161: one iteration of the while loop
WhileIter ==
    /\ pc = "while"
    /\ WhileCond(cumulative, GeomLength(geom))
    /\ seg_num <= MaxSeg
    /\ LET start_ratio == StartRatio(cumulative, GeomLength(geom))
           end_ratio == EndRatio(cumulative, segment_m, GeomLength(geom))
           segment == segmentAlongLine(geom, start_ratio, end_ratio)
       IN \E ok \in BOOLEAN :
             IF ok
             THEN /\ Insert(SegmentRow(segment, seg_num, road_id))
                  /\ cumulative' = cumulative + GeomLength(segment)
                  /\ seg_num' = seg_num + 1
                  /\ total_segments' = total_segments + 1
                  /\ UNCHANGED <<pc, result>>
             ELSE /\ Raise("insertRow")
                  /\ UNCHANGED <<fs, cumulative, seg_num, total_segments>>
    /\ UNCHANGED <<args, row_idx, road_id, geom, results, proj, steps>>

\* lines 149, 163: the while loop ends, the road is done
WhileExit ==
    /\ pc = "while"
    /\ ~WhileCond(cumulative, GeomLength(geom))
    /\ road_id' = road_id + 1
    /\ row_idx' = row_idx + 1
    /\ pc' = "for"
    /\ UNCHANGED <<fs, args, result, seg_num, cumulative, total_segments, geom,
                   results, proj, steps>>

\* lines 134, 165-168: the cursor is exhausted, _perform_split returns
SplitReturn ==
    /\ pc = "for"
    /\ row_idx = Len(InRows)
    /\ results' = [segments |-> total_segments, time |-> Elapsed]
    /\ pc' = "cleanup"
    /\ UNCHANGED <<fs, args, result, locals, proj, steps>>

\* ------------------------------------------------------- lines 64-73
Cleanup ==
    /\ pc = "cleanup"
    /\ steps' = Append(steps, "cleanup")
    /\ \E ok \in BOOLEAN :
          IF ok
          THEN /\ fs' = IF Exists(fs, projected) THEN Delete(fs, projected) ELSE fs
               /\ result' = SuccessResult(output_fc, results)
               /\ pc' = "done"
          ELSE /\ fs' = fs
               /\ Raise("Delete_management")
    /\ UNCHANGED <<args, locals, results, proj>>

Next ==
    \/ Validate
    \/ ProjectToUtm
    \/ CreateOutput
    \/ SplitOpen
    \/ SkipNullRow
    \/ InsertSingle
    \/ BeginMulti
    \/ WhileIter
    \/ WhileExit
    \/ SplitReturn
    \/ Cleanup

Spec == Init /\ [][Next]_vars

\* =================================================================== claims
\* ------------------------------------------------------------ vocabulary
Last(q) == q[Len(q)]
Returned == pc = "done"
Entered(step) == \E i \in 1..Len(steps) : steps[i] = step
FailedIn(step) == Returned /\ ~result.success /\ Last(steps) = step

\* the records written by _perform_split so far
OutRows == IF Entered("split") THEN fs[output_fc].rows ELSE <<>>

\* the roads of the input that have a geometry, in input order
IsRoad(row) == row.shape # NullGeom
InputRoads == IF Exists(fs0, InputFc) THEN SelectSeq(fs0[InputFc].rows, IsRoad) ELSE <<>>
RoadLen(r) == GeomLength(InputRoads[r].shape)

\* the records carrying ROAD_ID r, in write order
RowsOf(r) == LET Mine(row) == row.ROAD_ID = r IN SelectSeq(OutRows, Mine)

\* roads whose for-iteration has ended
SplitDone == pc = "cleanup" \/ (Returned /\ Entered("cleanup"))
Finished(r) == /\ Entered("split")
               /\ r \in 1..Len(InputRoads)
               /\ (r < road_id \/ SplitDone)

RECURSIVE SumLen(_)
SumLen(rs) == IF rs = <<>> THEN 0 ELSE GeomLength(rs[1].shape) + SumLen(Tail(rs))

Ceil(a, b) == (a + b - 1) \div b

IntermediateCreated == proj.tr = "ok" \/ proj.cp = "ok"
FallbackSucceeded == proj.tr = "fail" /\ proj.cp = "ok" /\ proj.df = "ok"
TransformAndFallbackFailed == proj.tr = "fail" /\ (proj.cp = "fail" \/ proj.df = "fail")
AllSteps == <<"validate", "project", "create", "split", "cleanup">>

\* ------------------------------------------------------------------- C1
\* C1: whenever the intermediate "<input_fc>_UTM" was created during the call,
\* it no longer exists when split_roads returns, after a success as well as
\* after a failure of output-schema creation or of the segmentation loop.
C1_IntermediateGoneOnReturn ==
    (/\ Returned
     /\ IntermediateCreated
     /\ (result.success \/ FailedIn("create") \/ FailedIn("split")))
    => ~Exists(fs, projected)

\* ------------------------------------------------------------------- C2
\* C2: with a target length T > 0, every record written by _perform_split
\* holds a segment of arc length at most T.
C2_SegmentAtMostTarget ==
    segment_m > 0 =>
        \A i \in 1..Len(OutRows) : GeomLength(OutRows[i].shape) <= segment_m

C2_Witness ==
    /\ Returned /\ result.success /\ segment_m > 0
    /\ \E i, j \in 1..Len(OutRows) :
          /\ OutRows[i].ROAD_ID = OutRows[j].ROAD_ID
          /\ OutRows[i].SEGMENT_ID = 1 /\ OutRows[j].SEGMENT_ID = 3
          /\ GeomLength(OutRows[i].shape) = segment_m
          /\ GeomLength(OutRows[j].shape) < segment_m

C5_ShortRoadWrittenWhole ==
    \A r \in 1..Len(InputRoads) :
        (Finished(r) /\ RoadLen(r) <= segment_m)
        => /\ Len(RowsOf(r)) = 1
           /\ RowsOf(r)[1].shape = InputRoads[r].shape
           /\ RowsOf(r)[1].SEGMENT_ID = 1
           /\ RowsOf(r)[1].LENGTH_KM = <<RoadLen(r), 1000>>

C5_Witness ==
    /\ Returned /\ result.success
    /\ \E r \in 1..Len(InputRoads) :
          /\ RoadLen(r) = segment_m
          /\ Len(RowsOf(r)) = 1
          /\ GeomLength(RowsOf(r)[1].shape) = segment_m

\* ------------------------------------------------------------------- C6
\* C6: when _perform_split has gone through an input with N non-null
\* geometries, the ROAD_IDs written are exactly 1..N in input order, a null
\* row writes nothing and takes no ROAD_ID, and each road's SEGMENT_IDs are
\* 1..k in write order.
NonNullBefore(n) ==
    Cardinality({i \in 1..n : fs0[InputFc].rows[i].shape # NullGeom})

C6_IdsContiguous ==
    /\ (pc = "for" => road_id = 1 + NonNullBefore(row_idx))
    /\ SplitDone =>
         /\ {OutRows[i].ROAD_ID : i \in 1..Len(OutRows)} = 1..Len(InputRoads)
         /\ \A i \in 1..(Len(OutRows) - 1) : OutRows[i].ROAD_ID <= OutRows[i + 1].ROAD_ID
         /\ \A r \in 1..Len(InputRoads) :
               /\ \A i \in 1..Len(RowsOf(r)) : RowsOf(r)[i].SEGMENT_ID = i
               /\ SumLen(RowsOf(r)) = RoadLen(r)

C6_Witness ==
    /\ Returned /\ result.success
    /\ Len(fs0[InputFc].rows) = 2
    /\ fs0[InputFc].rows[1].shape = NullGeom
    /\ fs0[InputFc].rows[1].oid > fs0[InputFc].rows[2].oid
    /\ Len(OutRows) >= 2
    /\ \A i \in 1..Len(OutRows) : OutRows[i].ROAD_ID = 1 /\ OutRows[i].SEGMENT_ID = i

\* ------------------------------------------------------------------- C7
\* C7: every iteration of the while loop of _perform_split strictly increases
\* cumulative (which is why the loop ends), whatever the target length.
C7_CumulativeIncreases ==
    [][(pc = "while" /\ pc' = "while" /\ seg_num' = seg_num + 1)
          => cumulative' > cumulative]_vars

\* ------------------------------------------------------------------- C8
\* C8: split_roads always hands its caller a result record: success = False
\* with an error message whenever a step failed, success = True with output,
\* segments and time only when all five steps, cleanup included, completed.
C8_FailuresBecomeResults ==
    Returned =>
        /\ "success" \in DOMAIN result
        /\ IF result.success
           THEN /\ DOMAIN result = {"success", "output", "segments", "time"}
                /\ steps = AllSteps
                /\ ~Exists(fs, projected)
                /\ result.output = output_fc
                /\ result.segments = Len(OutRows)
           ELSE /\ DOMAIN result = {"success", "error"}
                /\ Exists(fs0, InputFc) => result.error # "Input not found"

C8_Witness ==
    /\ Returned /\ ~result.success
    /\ Last(steps) = "cleanup"
    /\ Len(OutRows) >= 1

\* ------------------------------------------------------------------- C9
\* C9 as stated: when the transform fails and the fallback succeeds the run
\* goes on past projection, and the run fails at the projection step only
\* when both the transform and the fallback fail.
C9_ProjectionFailsOnlyIfBothFail ==
    /\ (FallbackSucceeded /\ pc # "project") => Entered("create") \/ pc = "create"
    /\ FailedIn("project") => TransformAndFallbackFailed

\* C9 as amended: when the transform fails and the fallback succeeds,
\* _project_to_utm returns the intermediate and the run goes on to schema
\* creation; the run fails at the projection step only when deleting an old
\* intermediate fails or both the transform and the fallback fail.
C9_FallbackIsNotAnError ==
    /\ (FallbackSucceeded /\ pc = "create") =>
          /\ Exists(fs, projected)
          /\ fs[projected].sr = "UTM_declared"
          /\ fs[projected].rows = fs0[InputFc].rows
    /\ (FallbackSucceeded /\ Returned) => Entered("create")
    /\ FailedIn("project") => proj.del = "fail" \/ TransformAndFallbackFailed

C9_Witness ==
    /\ Returned /\ result.success
    /\ FallbackSucceeded
    /\ fs[output_fc].sr = "UTM_declared"
    /\ Len(OutRows) >= 1

\* ------------------------------------------------------------------ C10
InputMissing == Returned /\ ~result.success /\ result.error = "Input not found"
ProjectionFailed == FailedIn("project") /\ TransformAndFallbackFailed

\* C10 as stated: after a failure for a missing input or a failed projection
\* the destination collection is as it was before the call, and for a missing
\* input the whole workspace is.
C10_OutputUntouched ==
    /\ (InputMissing \/ ProjectionFailed) => fs[output_fc] = fs0[output_fc]
    /\ InputMissing => fs = fs0

\* C10 as amended: the same, for a destination that is not the intermediate
\* "<input_fc>_UTM" itself.
C10_OutputUntouchedUnlessIntermediate ==
    /\ ((InputMissing \/ ProjectionFailed) /\ output_name # "roads_UTM")
          => fs[output_fc] = fs0[output_fc]
    /\ InputMissing => fs = fs0

C10_Witness ==
    /\ ProjectionFailed
    /\ output_name = "segments"
    /\ fs0["segments"] = OldFC
    /\ fs0["roads_UTM"] = OldFC
    /\ ~Exists(fs, "roads_UTM")

====
